---------------------------- MODULE Spec2Model ----------------------------
(***************************************************************************)
(* Model of luci-app-podman's podman.ipv6 module: deriveUlaFromIpv4, the   *)
(* derivation of an IPv6 ULA /64 subnet and gateway from an IPv4 subnet;   *)
(* and of load() and render() of its containers, pods and secrets views.   *)
(*                                                                         *)
(* JavaScript strings are TLA+ strings; the character at position i of s   *)
(* is SubSeq(s, i, i).  JavaScript values that are not strings (numbers,   *)
(* NaN, undefined) are records with a "kind" field.                        *)
(***************************************************************************)
EXTENDS Integers, Sequences, FiniteSets, TLC

VARIABLES
    ipv4,        \* first argument of the current call
    ula_prefix,  \* second argument of the current call
    result,      \* value returned by the current call, <<>> before it returns
    prev,        \* arguments and result of the previous call, <<>> before any
    page         \* the list view (containers, pods or secrets) of the open page

vars == <<ipv4, ula_prefix, result, prev, page>>

-----------------------------------------------------------------------------
(* JavaScript primitives used by the function *)

\* s[i] for a string s (1-based)
CharAt(s, i) == SubSeq(s, i, i)

\* String.prototype.indexOf(sep), 1-based; 0 when sep does not occur in s
IndexOf(s, sep) ==
    LET hits == { i \in 1..(Len(s) - Len(sep) + 1) :
                      SubSeq(s, i, i + Len(sep) - 1) = sep }
    IN  IF hits = {} THEN 0 ELSE CHOOSE i \in hits : \A j \in hits : i <= j

\* String.prototype.split(sep) for a non-empty separator string: the pieces
\* between the leftmost non-overlapping occurrences of sep, empty pieces kept
RECURSIVE Split(_, _)
Split(s, sep) ==
    LET i == IndexOf(s, sep)
    IN  IF i = 0
        THEN <<s>>
        ELSE <<SubSeq(s, 1, i - 1)>> \o Split(SubSeq(s, i + Len(sep), Len(s)), sep)

\* Array.prototype.join(sep)
RECURSIVE Join(_, _)
Join(parts, sep) ==
    IF Len(parts) = 0 THEN ""
    ELSE IF Len(parts) = 1 THEN parts[1]
    ELSE parts[1] \o sep \o Join(Tail(parts), sep)

\* arr[i] with a 0-based JavaScript index: undefined past the end
Undefined == [kind |-> "undefined", val |-> 0]
NaN == [kind |-> "NaN", val |-> 0]
Num(n) == [kind |-> "num", val |-> n]
At(arr, i) == IF i + 1 \in 1..Len(arr) THEN arr[i + 1] ELSE Undefined

DecDigits == <<"0", "1", "2", "3", "4", "5", "6", "7", "8", "9">>
HexDigits == DecDigits \o <<"a", "b", "c", "d", "e", "f">>

IsDecDigit(c) == \E d \in 1..10 : DecDigits[d] = c
DigitVal(c) == (CHOOSE d \in 1..10 : DecDigits[d] = c) - 1
AllDigits(s) == Len(s) > 0 /\ \A i \in 1..Len(s) : IsDecDigit(CharAt(s, i))

RECURSIVE DecVal(_)
DecVal(s) ==
    IF Len(s) = 0 THEN 0
    ELSE DecVal(SubSeq(s, 1, Len(s) - 1)) * 10 + DigitVal(CharAt(s, Len(s)))

RECURSIVE Pow10(_)
Pow10(k) == IF k = 0 THEN 1 ELSE 10 * Pow10(k - 1)

\* a sign followed by the rest of the literal
Signed(s) ==
    IF Len(s) > 0 /\ CharAt(s, 1) \in {"-", "+"}
    THEN [neg |-> CharAt(s, 1) = "-", body |-> SubSeq(s, 2, Len(s))]
    ELSE [neg |-> FALSE, body |-> s]

\* Number(s) for a string without white space, "." or "x": the empty string
\* is 0; [+-]digits[e[+-]digits] is that decimal number; anything else is
\* NaN.  val holds the integer part of the number, which is all that the
\* bitwise operators read.
Number(s) ==
    IF s = "" THEN Num(0)
    ELSE
        LET sg == Signed(s)
            e  == IndexOf(sg.body, "e")
            mant == IF e = 0 THEN sg.body ELSE SubSeq(sg.body, 1, e - 1)
            ex == Signed(IF e = 0 THEN "0" ELSE SubSeq(sg.body, e + 1, Len(sg.body)))
        IN  IF ~(AllDigits(mant) /\ AllDigits(ex.body)) THEN NaN
            ELSE
                LET m == DecVal(mant)
                    k == DecVal(ex.body)
                    mag == IF ex.neg THEN m \div Pow10(k) ELSE m * Pow10(k)
                IN  Num(IF sg.neg THEN 0 - mag ELSE mag)

\* ToInt32: NaN and undefined become 0; a number keeps its integer part
\* (model integers are already 32-bit two's complement values)
ToInt32(v) == IF v.kind = "num" THEN v.val ELSE 0

\* faulty variant: the shift is by 4 bits instead of 8
ShiftLeft4(x) ==
    LET lo == x % 268435456
    IN  IF lo >= 134217728 THEN (lo - 268435456) * 16 ELSE lo * 16

\* x << 8 on a 32-bit integer: the low 24 bits move up, the sign bit is bit 31
ShiftLeft8(x) ==
    LET lo == x % 16777216
    IN  IF lo >= 8388608 THEN (lo - 16777216) * 256 ELSE lo * 256

\* bitwise operators on non-negative integers
RECURSIVE OrNat(_, _)
OrNat(a, b) ==
    IF a = 0 THEN b
    ELSE IF b = 0 THEN a
    ELSE 2 * OrNat(a \div 2, b \div 2) + (IF a % 2 = 1 \/ b % 2 = 1 THEN 1 ELSE 0)

RECURSIVE AndNat(_, _)
AndNat(a, b) ==
    IF a = 0 \/ b = 0 THEN 0
    ELSE 2 * AndNat(a \div 2, b \div 2) + (IF a % 2 = 1 /\ b % 2 = 1 THEN 1 ELSE 0)

\* a & ~b on non-negative integers
RECURSIVE AndNotNat(_, _)
AndNotNat(a, b) ==
    IF a = 0 THEN 0
    ELSE 2 * AndNotNat(a \div 2, b \div 2) + (IF a % 2 = 1 /\ b % 2 = 0 THEN 1 ELSE 0)

\* a | b on 32-bit two's complement integers (~x = -1 - x)
BitOr(a, b) ==
    IF a >= 0 /\ b >= 0 THEN OrNat(a, b)
    ELSE IF a < 0 /\ b < 0 THEN -1 - AndNat(-1 - a, -1 - b)
    ELSE IF a < 0 THEN -1 - AndNotNat(-1 - a, b)
    ELSE -1 - AndNotNat(-1 - b, a)

\* Number.prototype.toString(16) of an integer: lowercase digits, "-" sign
RECURSIVE HexNat(_)
HexNat(n) ==
    IF n < 16 THEN HexDigits[n + 1]
    ELSE HexNat(n \div 16) \o HexDigits[(n % 16) + 1]

ToString16(n) == IF n < 0 THEN "-" \o HexNat(0 - n) ELSE HexNat(n)

\* String.prototype.padStart(targetLength, c) for a one-character pad string
RECURSIVE PadStart(_, _, _)
PadStart(s, targetLength, c) ==
    IF Len(s) >= targetLength THEN s ELSE PadStart(c \o s, targetLength, c)

\* Array.prototype.slice(from, to) with 0 <= from: the elements at the 0-based
\* indices from..to-1 that exist
Slice(arr, from, to) ==
    SubSeq(arr, from + 1, IF to < Len(arr) THEN to ELSE Len(arr))

\* Array.prototype.map(Number)
MapNumber(parts) == [i \in 1..Len(parts) |-> Number(parts[i])]


-----------------------------------------------------------------------------
(* deriveUlaFromIpv4(ipv4, ula_prefix), step by step as the source computes it *)

\* faulty variant: the prefix length is not cut off
ipv4AddressWhole(ip) == ip

\* 1. IPv4 address: the text before the first "/"
ipv4Address(ip) == Split(ip, "/")[1]

octets(ip) == MapNumber(Split(ipv4Address(ip), "."))

octet3(ip) == At(octets(ip), 2)
octet4(ip) == At(octets(ip), 3)

\* faulty variant: octet3 is not shifted
subnetIdHexNoShift(ip) ==
    PadStart(ToString16(BitOr(ToInt32(octet3(ip)), ToInt32(octet4(ip)))), 4, "0")

\* faulty variant: the identifier is not padded
subnetIdHexNoPad(ip) ==
    ToString16(BitOr(ShiftLeft8(ToInt32(octet3(ip))), ToInt32(octet4(ip))))

\* ((octet3 << 8) | octet4).toString(16).padStart(4, '0')
subnetIdHex(ip) ==
    PadStart(ToString16(BitOr(ShiftLeft8(ToInt32(octet3(ip))), ToInt32(octet4(ip)))),
             4, "0")

\* 2. ULA prefix: the text before the first "/", then before the first "::"
ulaAddress(ula) == Split(ula, "/")[1]

ulaParts(ula) == Split(ulaAddress(ula), "::")

\* faulty variant: the part after the last "::" is taken
ulaBaseLastPart(ula) == ulaParts(ula)[Len(ulaParts(ula))]

ulaBase(ula) == ulaParts(ula)[1]

\* a base of "" splits into the single hextet "", which the source drops
splitHextets(ula) ==
    LET hextets == Split(ulaBase(ula), ":")
    IN  IF Len(hextets) = 1 /\ hextets[1] = "" THEN <<>> ELSE hextets

\* faulty variant: the loop stops at 2 hextets
RECURSIVE padHextetsTo2(_)
padHextetsTo2(hextets) ==
    IF Len(hextets) < 2 THEN padHextetsTo2(Append(hextets, "0")) ELSE hextets

\* faulty variant: the zeros are put in front (unshift for push)
RECURSIVE padHextetsLeft(_)
padHextetsLeft(hextets) ==
    IF Len(hextets) < 3 THEN padHextetsLeft(<<"0">> \o hextets) ELSE hextets

\* while (hextets.length < 3) hextets.push('0')
RECURSIVE padHextets(_)
padHextets(hextets) ==
    IF Len(hextets) < 3 THEN padHextets(Append(hextets, "0")) ELSE hextets

\* faulty variant: four hextets are kept
ulaNetworkBaseSlice4(ula) == Join(Slice(padHextets(splitHextets(ula)), 0, 4), ":")

\* hextets.slice(0, 3).join(':')
ulaNetworkBase(ula) == Join(Slice(padHextets(splitHextets(ula)), 0, 3), ":")

\* 3. subnet and gateway
ipv6SubnetAddress(ip, ula) == ulaNetworkBase(ula) \o ":" \o subnetIdHex(ip) \o "::"

\* faulty variant: the gateway is built from the network base alone
deriveUlaFromIpv4GatewayNoId(ip, ula) ==
    [ipv6subnet  |-> ipv6SubnetAddress(ip, ula) \o "/64",
     ipv6gateway |-> ulaNetworkBase(ula) \o "::1"]

\* faulty variant: an address that is not four octets in 0..255 is refused
deriveUlaFromIpv4Validating(ip, ula) ==
    IF /\ Len(octets(ip)) = 4
       /\ \A i \in 1..4 : octets(ip)[i].kind = "num" /\ octets(ip)[i].val \in 0..255
    THEN [ipv6subnet  |-> ipv6SubnetAddress(ip, ula) \o "/64",
          ipv6gateway |-> ipv6SubnetAddress(ip, ula) \o "1"]
    ELSE [error |-> "InvalidAddress"]

deriveUlaFromIpv4(ip, ula) ==
    [ipv6subnet  |-> ipv6SubnetAddress(ip, ula) \o "/64",
     ipv6gateway |-> ipv6SubnetAddress(ip, ula) \o "1"]

-----------------------------------------------------------------------------
(* The list views: view.podman.containers, view.podman.pods and             *)
(* view.podman.secrets.  null is the empty sequence, an object a sequence   *)
(* of length 1.                                                             *)

Views == {"containers", "pods", "secrets"}

\* _('Failed to load containers'), _('Failed to load pods'), ...
FailedToLoad(view) == "Failed to load " \o view

\* the view object as extended: map: null, listHelper: null; nothing loaded,
\* nothing rendered
NewView(view) ==
    [view        |-> view,
     phase       |-> "new",
     rpc         |-> <<>>,
     data        |-> <<>>,
     listHelper  |-> <<>>,
     map         |-> <<>>,
     toolbar     |-> FALSE,
     output      |-> "none",
     helperCalls |-> 0,
     lastHandler |-> "none"]

\* value || []: null and undefined are falsy, an array (empty or not) is truthy
OrEmptyList(value) == IF value.t = "array" THEN value.items ELSE <<>>

\* the then-callback of load(): { <view>: value || [] }
loadThen(view, value) == [fields |-> {view}, list |-> OrEmptyList(value), error |-> ""]

\* err.message || _('Failed to load ...'): an absent or empty message is falsy
MessageOr(err, fallback) ==
    IF err.message # <<>> /\ err.message[1] # "" THEN err.message[1] ELSE fallback

\* the catch-callback of load(): { error: err.message || _('Failed to load ...') }
loadCatch(view, err) ==
    [fields |-> {"error"}, list |-> <<>>, error |-> MessageOr(err, FailedToLoad(view))]

\* data && data.error
HasError(data) == "error" \in data.fields /\ data.error # ""

\* faulty variant: render() without the check of data.error
renderNoErrorCheck(v) ==
    [v EXCEPT !.phase = "rendering",
              !.listHelper = <<[data |-> v.data[1]]>>,
              !.map = <<[data |-> v.data[1]]>>,
              !.toolbar = TRUE]

\* render(data), up to its return: the error element, or the list helper, the
\* map and the toolbar are made and the promise of map.render() is returned
render(v) ==
    IF HasError(v.data[1])
    THEN [v EXCEPT !.phase = "rendered", !.output = "error"]
    ELSE [v EXCEPT !.phase = "rendering",
                   !.listHelper = <<[data |-> v.data[1]]>>,
                   !.map = <<[data |-> v.data[1]]>>,
                   !.toolbar = TRUE]

-----------------------------------------------------------------------------
(* The inputs: valid IPv4 subnets and valid IPv6 prefixes, as text *)

\* octets 3 and 4 of the generated IPv4 subnets range over 0..MaxLowOctet
\* and the two values below
MaxLowOctet == 1
\* generated prefixes have 0..MaxLeadHextets hextets before their "::"
MaxLeadHextets == 5

Octets34 == (0..MaxLowOctet) \cup {20, 255}

\* decimal text of a natural number
RECURSIVE ToDec(_)
ToDec(n) ==
    IF n < 10 THEN DecDigits[n + 1]
    ELSE ToDec(n \div 10) \o DecDigits[(n % 10) + 1]

\* the subnets of the function's documentation, and a grid of subnets with and
\* without a prefix length
Ipv4Inputs ==
    {"192.168.20.0/24", "10.89.5.0/24", "172.16.0.1/16", "192.168.0.0/24",
     "10.89.20.0/16", "10.89.0.1"}
    \cup { "192.168." \o ToDec(c) \o "." \o ToDec(d) \o sfx :
               c \in Octets34, d \in Octets34, sfx \in {"", "/24"} }

HextetPool == <<"fd52", "425", "78eb", "9", "abcd", "1", "2", "3">>

\* the prefixes of the function's documentation; prefixes with and without a
\* prefix length, with text after "::", and without "::"; and prefixes with
\* 0..MaxLeadHextets hextets before "::"
UlaInputs ==
    {"fd52:425:78eb::/48", "fd52:425::/48", "::/48", "fd00::/8",
     "fd52:425:78eb:9:abcd::/64",
     "fd52:425:78eb::", "fd52:425:78eb::1", "fd52:425::78eb:1/64",
     "fd52:425:78eb:9:abcd:1:2:3", "fd52:425:78eb:0:0:0:0:0/48"}
    \cup { Join(SubSeq(HextetPool, 1, k), ":") \o "::/48" : k \in 0..MaxLeadHextets }

-----------------------------------------------------------------------------
(* Calls of the function.  result and prev are sequences of length 0 or 1. *)

Init ==
    /\ ipv4 \in Ipv4Inputs
    /\ ula_prefix \in UlaInputs
    /\ result = <<>>
    /\ prev = <<>>
    /\ page = NewView("containers")

\* the function runs on the current arguments and returns
Call ==
    /\ result = <<>>
    /\ result' = <<deriveUlaFromIpv4(ipv4, ula_prefix)>>
    /\ UNCHANGED <<ipv4, ula_prefix, prev, page>>

ThisCall == [ipv4 |-> ipv4, ula_prefix |-> ula_prefix, result |-> result[1]]

\* the caller asks again with another (or the same) IPv4 subnet
SetIpv4(ip) ==
    /\ result # <<>>
    /\ prev' = <<ThisCall>>
    /\ ipv4' = ip
    /\ result' = <<>>
    /\ UNCHANGED <<ula_prefix, page>>

\* the caller asks again with another (or the same) ULA prefix
SetUlaPrefix(ula) ==
    /\ result # <<>>
    /\ prev' = <<ThisCall>>
    /\ ula_prefix' = ula
    /\ result' = <<>>
    /\ UNCHANGED <<ipv4, page>>

Next ==
    \/ Call
    \/ \E ip \in Ipv4Inputs : SetIpv4(ip)
    \/ \E ula \in UlaInputs : SetUlaPrefix(ula)

Spec == Init /\ [][Next]_vars

-----------------------------------------------------------------------------
(* Reading the arguments and the result, for the properties below *)

Returned == result # <<>>
BothReturned == result # <<>> /\ prev # <<>>

\* text of an argument before its first "/"
BeforeSlash(s) ==
    LET i == IndexOf(s, "/") IN IF i = 0 THEN s ELSE SubSeq(s, 1, i - 1)

\* the numbers written as 3rd and 4th octet of a dotted quad
GivenOctets(ip) ==
    LET quad == Split(BeforeSlash(ip), ".") IN <<DecVal(quad[3]), DecVal(quad[4])>>

\* the hextets a prefix gives before its first "::" (all of them without "::")
LeadHextets(ula) ==
    LET addr   == BeforeSlash(ula)
        i      == IndexOf(addr, "::")
        before == IF i = 0 THEN addr ELSE SubSeq(addr, 1, i - 1)
    IN  IF before = "" THEN <<>> ELSE Split(before, ":")

FirstThree(ula) ==
    LET lead == LeadHextets(ula)
    IN  IF Len(lead) > 3 THEN SubSeq(lead, 1, 3) ELSE lead

\* the 4th colon-separated group of a returned subnet
Hextet4(r) == Split(r.ipv6subnet, ":")[4]

IsHexDigit(c) == \E d \in 1..16 : HexDigits[d] = c

RECURSIVE HexVal(_)
HexVal(s) ==
    IF Len(s) = 0 THEN 0
    ELSE HexVal(SubSeq(s, 1, Len(s) - 1)) * 16
         + (CHOOSE d \in 1..16 : HexDigits[d] = CharAt(s, Len(s))) - 1

Zeros(n) == [i \in 1..n |-> "0"]

-----------------------------------------------------------------------------
(* Properties *)

\* C1: for one ULA prefix, two calls return the same 4th hextet exactly when
\* their IPv4 subnets have the same (octet3, octet4) pair, whatever octets 1
\* and 2 and the prefix length are.
C1_InjectiveSubnetId ==
    (BothReturned /\ prev[1].ula_prefix = ula_prefix)
    => ((GivenOctets(prev[1].ipv4) = GivenOctets(ipv4))
        <=> (Hextet4(prev[1].result) = Hextet4(result[1])))

C1_Witness ==
    /\ BothReturned
    /\ prev[1].ula_prefix = ula_prefix
    /\ GivenOctets(prev[1].ipv4) = <<0, 1>>
    /\ GivenOctets(ipv4) = <<1, 0>>
    /\ Hextet4(prev[1].result) # Hextet4(result[1])

\* C2: the returned gateway is the returned subnet without its "/64", with
\* the trailing "::" made "::1".
C2_GatewayFromSubnet ==
    Returned =>
        LET s == result[1].ipv6subnet
            n == Len(s)
        IN  /\ n >= 5
            /\ SubSeq(s, n - 2, n) = "/64"
            /\ SubSeq(s, n - 4, n - 3) = "::"
            /\ result[1].ipv6gateway = SubSeq(s, 1, n - 3) \o "1"

C2_Witness ==
    /\ Returned
    /\ ipv4 = "10.89.0.1"
    /\ ula_prefix = "fd52:425:78eb:9::/48"
    /\ result[1].ipv6gateway = "fd52:425:78eb:0001::1"

\* C3: deriveUlaFromIpv4("10.89.5.0/24", "fd52:425::/48") returns the subnet
\* "fd52:425:0:5905::/64" and the gateway "fd52:425:0:5905::1".
C3_DocExamplePadded ==
    (Returned /\ ipv4 = "10.89.5.0/24" /\ ula_prefix = "fd52:425::/48")
    => result[1] = [ipv6subnet  |-> "fd52:425:0:5905::/64",
                    ipv6gateway |-> "fd52:425:0:5905::1"]

\* C4: deriveUlaFromIpv4("172.16.0.1/16", "::/48") returns the subnet
\* "0:0:0:1::/64" and the gateway "0:0:0:1::1".
C4_DocExampleMinimal ==
    (Returned /\ ipv4 = "172.16.0.1/16" /\ ula_prefix = "::/48")
    => result[1] = [ipv6subnet  |-> "0:0:0:1::/64",
                    ipv6gateway |-> "0:0:0:1::1"]

\* C5 as stated: deriveUlaFromIpv4("192.168.0.0/24", "fd00::/8") has the
\* subnet identifier "0000" and returns the subnet "0:0:0:0000::/64".
C5_AsStated ==
    (Returned /\ ipv4 = "192.168.0.0/24" /\ ula_prefix = "fd00::/8")
    => /\ Hextet4(result[1]) = "0000"
       /\ result[1].ipv6subnet = "0:0:0:0000::/64"

\* C5 as amended: deriveUlaFromIpv4("192.168.0.0/24", "fd00::/8") has the
\* subnet identifier "0000" and returns the subnet "fd00:0:0:0000::/64": the
\* given hextet "fd00" is kept.
C5_ZeroSubnetId ==
    (Returned /\ ipv4 = "192.168.0.0/24" /\ ula_prefix = "fd00::/8")
    => /\ Hextet4(result[1]) = "0000"
       /\ result[1].ipv6subnet = "fd00:0:0:0000::/64"

C5_Witness ==
    /\ Returned
    /\ ipv4 = "192.168.0.0/24"
    /\ ula_prefix = "fd00::/8"
    /\ result[1].ipv6subnet = "fd00:0:0:0000::/64"

\* C6: deriveUlaFromIpv4("192.168.20.0/24", "fd52:425:78eb::/48") returns the
\* subnet "fd52:425:78eb:1400::/64" and the gateway "fd52:425:78eb:1400::1".
C6_DocExampleFull ==
    (Returned /\ ipv4 = "192.168.20.0/24" /\ ula_prefix = "fd52:425:78eb::/48")
    => result[1] = [ipv6subnet  |-> "fd52:425:78eb:1400::/64",
                    ipv6gateway |-> "fd52:425:78eb:1400::1"]

C6_Witness ==
    /\ Returned
    /\ ipv4 = "192.168.20.0/24"
    /\ ula_prefix = "fd52:425:78eb::/48"
    /\ result[1].ipv6gateway = "fd52:425:78eb:1400::1"

\* C7: the returned subnet is exactly 4 non-empty colon-separated hextets,
\* then "::", then "/64", for every valid IPv4 subnet and valid ULA prefix.
C7_SubnetShape ==
    Returned =>
        LET s == result[1].ipv6subnet
            n == Len(s)
        IN  /\ n >= 5
            /\ SubSeq(s, n - 4, n) = "::/64"
            /\ LET hs == Split(SubSeq(s, 1, n - 5), ":")
               IN  /\ Len(hs) = 4
                   /\ \A i \in 1..Len(hs) :
                          /\ hs[i] # ""
                          /\ \A j \in 1..Len(hs[i]) : IsHexDigit(CharAt(hs[i], j))

C7_Witness ==
    /\ Returned
    /\ LeadHextets(ula_prefix) = <<>>
    /\ result[1].ipv6subnet = "0:0:0:ff14::/64"

C9_ShortPrefixPadded ==
    (Returned /\ IndexOf(BeforeSlash(ula_prefix), "::") # 0
              /\ Len(LeadHextets(ula_prefix)) < 3)
    => LET lead == LeadHextets(ula_prefix)
           base == lead \o Zeros(3 - Len(lead))
       IN  result[1].ipv6subnet
               = Join(base, ":") \o ":" \o Hextet4(result[1]) \o "::/64"

C9_Witness ==
    /\ Returned
    /\ LeadHextets(ula_prefix) = <<"fd52", "425">>
    /\ SubSeq(Split(result[1].ipv6subnet, ":"), 1, 3) = <<"fd52", "425", "0">>

\* C10: two prefixes that agree on the (up to) three first hextets before
\* their first "::" give the same result for the same IPv4 subnet.
C10_OnlyFirstThreeHextets ==
    (BothReturned /\ prev[1].ipv4 = ipv4
                  /\ FirstThree(prev[1].ula_prefix) = FirstThree(ula_prefix))
    => prev[1].result = result[1]

C10_Witness ==
    /\ BothReturned
    /\ prev[1].ipv4 = ipv4
    /\ prev[1].ula_prefix = "fd52:425:78eb::1"
    /\ ula_prefix = "fd52:425:78eb:9:abcd::/64"
    /\ prev[1].result = result[1]

-----------------------------------------------------------------------------
(* Calls that differ in the prefix lengths only *)

Ipv4Addresses == { BeforeSlash(ip) : ip \in Ipv4Inputs }
UlaAddresses == { BeforeSlash(ula) : ula \in UlaInputs }

\* "" is the bare address
Ipv4Suffixes == {"", "/8", "/24"}
UlaSuffixes == {"", "/48", "/64"}

InitSuffix ==
    /\ ipv4 \in { a \o sfx : a \in Ipv4Addresses, sfx \in Ipv4Suffixes }
    /\ ula_prefix \in { u \o sfx : u \in UlaAddresses, sfx \in UlaSuffixes }
    /\ result = <<>>
    /\ prev = <<>>
    /\ page = NewView("containers")

\* the caller asks again with the same two addresses, each bare or with a
\* prefix length
Resuffix(sa, su) ==
    /\ result # <<>>
    /\ prev' = <<ThisCall>>
    /\ ipv4' = BeforeSlash(ipv4) \o sa
    /\ ula_prefix' = BeforeSlash(ula_prefix) \o su
    /\ result' = <<>>
    /\ UNCHANGED page

NextSuffix ==
    \/ Call
    \/ \E sa \in Ipv4Suffixes, su \in UlaSuffixes : Resuffix(sa, su)

SpecSuffix == InitSuffix /\ [][NextSuffix]_vars

\* C11: the "/<n>" suffix of either argument never influences the result: two
\* calls whose arguments have the same addresses, bare or with any prefix
\* length on either or both, return the same pair, and the returned subnet
\* always ends in "/64".
C11_SuffixIgnored ==
    /\ Returned =>
           LET s == result[1].ipv6subnet
           IN  Len(s) >= 3 /\ SubSeq(s, Len(s) - 2, Len(s)) = "/64"
    /\ (BothReturned /\ BeforeSlash(prev[1].ipv4) = BeforeSlash(ipv4)
                     /\ BeforeSlash(prev[1].ula_prefix) = BeforeSlash(ula_prefix))
       => prev[1].result = result[1]

C11_Witness ==
    /\ BothReturned
    /\ prev[1].ipv4 = "192.168.1.255"
    /\ ipv4 = "192.168.1.255/8"
    /\ prev[1].ula_prefix = "fd52:425::/64"
    /\ ula_prefix = "fd52:425::"
    /\ prev[1].result = result[1]
    /\ result[1].ipv6subnet = "fd52:425:0:01ff::/64"

-----------------------------------------------------------------------------
(* Calls with arbitrary text as arguments *)

\* text in the place of octets 3 and 4: in range, out of range, negative,
\* not a number, empty
OctetTexts == {"0", "1", "255", "256", "65536", "-1", "abc", ""}

AnyIpv4Inputs ==
    {"", "10", "10.89", "10.89.5", "10.89.5.0.7", "/24", "10.89.256.0/24",
     "10.89.1e2.0", "10.89.-256.300"}
    \cup { "10.89." \o c \o "." \o d : c \in OctetTexts, d \in OctetTexts }

AnyUlaInputs == {"fd52:425::/48", "", ":", "zz:1:2:3::/200"}

InitAny ==
    /\ ipv4 \in AnyIpv4Inputs
    /\ ula_prefix \in AnyUlaInputs
    /\ result = <<>>
    /\ prev = <<>>
    /\ page = NewView("containers")

\* the caller asks again with any other text as the IPv4 subnet
SetAnyIpv4(ip) ==
    /\ result # <<>>
    /\ prev' = <<ThisCall>>
    /\ ipv4' = ip
    /\ result' = <<>>
    /\ UNCHANGED <<ula_prefix, page>>

NextAny ==
    \/ Call
    \/ \E ip \in AnyIpv4Inputs : SetAnyIpv4(ip)

SpecAny == InitAny /\ [][NextAny]_vars

\* the text is a decimal integer, with or without a minus sign
IsPlainInteger(t) == AllDigits(IF Len(t) > 0 /\ CharAt(t, 1) = "-" THEN Tail(t) ELSE t)

PlainIntegerVal(t) ==
    IF CharAt(t, 1) = "-" THEN 0 - DecVal(Tail(t)) ELSE DecVal(t)

\* the 3rd or the 4th octet is written as an integer outside 0..255
OctetOutOfRange(ip) ==
    LET quad == Split(BeforeSlash(ip), ".")
    IN  \E i \in {3, 4} :
            /\ i <= Len(quad)
            /\ IsPlainInteger(quad[i])
            /\ PlainIntegerVal(quad[i]) \notin 0..255

IsResultPair(r) ==
    /\ DOMAIN r = {"ipv6subnet", "ipv6gateway"}
    /\ Len(r.ipv6subnet) >= 5
    /\ SubSeq(r.ipv6subnet, Len(r.ipv6subnet) - 4, Len(r.ipv6subnet)) = "::/64"
    /\ Len(r.ipv6gateway) >= 3
    /\ SubSeq(r.ipv6gateway, Len(r.ipv6gateway) - 2, Len(r.ipv6gateway)) = "::1"

IsNegativeId(h) == IndexOf(h, "-") # 0
IsFourHexDigits(h) == Len(h) = 4 /\ \A j \in 1..Len(h) : IsHexDigit(CharAt(h, j))

\* C13 as stated: every call returns a result pair, and for an out-of-range
\* octet the subnet identifier is malformed: negative, or longer than 4 hex
\* digits.
C13_AsStated ==
    Returned =>
        /\ IsResultPair(result[1])
        /\ OctetOutOfRange(ipv4)
           => \/ IsNegativeId(Hextet4(result[1]))
              \/ Len(Hextet4(result[1])) > 4

\* C13 as amended: every call, whatever text it is given, returns a result
\* pair; for an out-of-range octet the subnet identifier is negative, or
\* longer than 4 hex digits, or a well-formed 4-digit identifier (that of an
\* in-range octet pair, with which the call collides).
C13_NoValidation ==
    Returned =>
        /\ IsResultPair(result[1])
        /\ OctetOutOfRange(ipv4)
           => \/ IsNegativeId(Hextet4(result[1]))
              \/ Len(Hextet4(result[1])) > 4
              \/ IsFourHexDigits(Hextet4(result[1]))

\* octets (0, 256) after octets (1, 0): the same subnet is returned
C13_Witness ==
    /\ BothReturned
    /\ prev[1].ipv4 = "10.89.1.0"
    /\ ipv4 = "10.89.0.256"
    /\ OctetOutOfRange(ipv4)
    /\ Hextet4(result[1]) = "0100"
    /\ prev[1].result = result[1]

-----------------------------------------------------------------------------
(* A page with one of the list views: load(), render(), toolbar *)

\* the list RPC returns arrays of 0..MaxListLen entries
MaxListLen == 2
\* at most MaxHelperCalls toolbar actions are followed on a page
MaxHelperCalls == 2

\* what the list RPC resolves with: an array, or nothing
ListValues ==
    { [t |-> "array", items |-> [i \in 1..n |-> ToDec(i)]] : n \in 0..MaxListLen }
    \cup { [t |-> "null", items |-> <<>>], [t |-> "undefined", items |-> <<>>] }

\* what the list RPC rejects with: an Error with a message or an empty one,
\* an object without message, a string
ListErrors ==
    { [t |-> "Error", message |-> <<"RPC call failed">>],
      [t |-> "Error", message |-> <<"">>],
      [t |-> "object", message |-> <<>>],
      [t |-> "string", message |-> <<>>] }

\* the handlers the toolbar of a view is given
ToolbarActions(view) ==
    IF view = "containers"
    THEN {"handleRemove", "handleStart", "handleStop", "handleCreateContainer",
          "handleImportFromRunCommand"}
    ELSE IF view = "pods"
    THEN {"handleDeleteSelected", "handleRefresh", "handleCreatePod"}
    ELSE {"handleDeleteSelected", "handleRefresh", "handleCreateSecret"}

InitViews ==
    /\ ipv4 = "192.168.20.0/24"
    /\ ula_prefix = "fd52:425:78eb::/48"
    /\ result = <<>>
    /\ prev = <<>>
    /\ page \in { NewView(view) : view \in Views }

\* load() calls the list RPC and returns the promise with both callbacks
Load ==
    /\ page.phase = "new"
    /\ page' = [page EXCEPT !.phase = "loading"]
    /\ UNCHANGED <<ipv4, ula_prefix, result, prev>>

\* the RPC resolves: the then-callback gives the data load() resolves to
ListResolved(value) ==
    /\ page.phase = "loading"
    /\ page' = [page EXCEPT !.phase = "loaded",
                            !.rpc = <<[settled |-> "resolved", with |-> value]>>,
                            !.data = <<loadThen(page.view, value)>>]
    /\ UNCHANGED <<ipv4, ula_prefix, result, prev>>

\* the RPC rejects: the catch-callback gives the data load() resolves to
ListRejected(err) ==
    /\ page.phase = "loading"
    /\ page' = [page EXCEPT !.phase = "loaded",
                            !.rpc = <<[settled |-> "rejected", with |-> err]>>,
                            !.data = <<loadCatch(page.view, err)>>]
    /\ UNCHANGED <<ipv4, ula_prefix, result, prev>>

\* render(data) with the data of load()
Render ==
    /\ page.phase = "loaded"
    /\ page' = render(page)
    /\ UNCHANGED <<ipv4, ula_prefix, result, prev>>

\* map.render() resolves: the view container with toolbar and map is returned
MapRendered ==
    /\ page.phase = "rendering"
    /\ page' = [page EXCEPT !.phase = "rendered", !.output = "container"]
    /\ UNCHANGED <<ipv4, ula_prefix, result, prev>>

\* a toolbar button is clicked: its handler calls into this.listHelper
\* (getSelected, bulkDelete, refreshTable), a TypeError when that is null
ToolbarAction(handler) ==
    /\ page.phase = "rendered"
    /\ page.toolbar
    /\ page.helperCalls < MaxHelperCalls
    /\ page' = IF page.listHelper = <<>>
               THEN [page EXCEPT !.phase = "TypeError"]
               ELSE [page EXCEPT !.helperCalls = @ + 1, !.lastHandler = handler]
    /\ UNCHANGED <<ipv4, ula_prefix, result, prev>>

NextViews ==
    \/ Load
    \/ \E value \in ListValues : ListResolved(value)
    \/ \E err \in ListErrors : ListRejected(err)
    \/ Render
    \/ MapRendered
    \/ \E handler \in ToolbarActions(page.view) : ToolbarAction(handler)

SpecViews == InitViews /\ [][NextViews]_vars

LoadSettled == page.rpc # <<>>
LoadFailed == page.rpc # <<>> /\ page.rpc[1].settled = "rejected"

=============================================================================
